---- MODULE Spec2Model ----
(***************************************************************************)
(* A model of src/main.js, the "report-lcov" GitHub action: one invocation *)
(* of run() (genhtml, merge, summary, per-file detail, baseline lookup,    *)
(* comment, artifact upload, output, gate) and the comment thread of the   *)
(* pull request that several invocations publish to.                       *)
(*                                                                         *)
(* Coverage percentages are integers in hundredths of a percent            *)
(* (8250 is 82.50%).  An optional value is a sequence of length 0 or 1.    *)
(***************************************************************************)
EXTENDS Integers, Sequences, FiniteSets, TLC

\* ------------------------------------------------------------------ bounds

\* Invocations that publish to the same pull request.
NumRuns == 2
\* Full pages of earlier, unrelated comments the pull request may carry.
MaxFullPages == 1

Runs == 1..NumRuns

\* -------------------------------------------------------- program constants

\* issues.listComments is called with neither per_page nor page, and its
\* result is used as it comes: the first page, of the host's default size.
PerPage == 30

\* events (main.js:12)
events == {"pull_request", "pull_request_target"}

\* ------------------------------------------------------------ input domains

Tokens == {"", "ghs_token"}
EventNames == {"pull_request", "push"}
TitlePrefixes == {"", "Unit"}
ArtifactNames == {"", "html"}
CoverageArtifactNames == {"", "coverage"}
MinimumInputs == {"", "90", "abc"}
TotalCoverages == {8250, 9000}
BaselineCoverages == {8000, 9000}

\* The workflow runs of the target branch the host may hold, newest first,
\* each with its conclusion.
WorkflowRunListings ==
  { <<>>,
    <<[id |-> 7, head_sha |-> "base7", conclusion |-> "success"]>>,
    <<[id |-> 7, head_sha |-> "base7", conclusion |-> "success"],
      [id |-> 5, head_sha |-> "base5", conclusion |-> "success"]>>,
    <<[id |-> 9, head_sha |-> "base9", conclusion |-> "failure"],
      [id |-> 7, head_sha |-> "base7", conclusion |-> "success"]>> }

Null == <<>>
Some(x) == <<x>>

VARIABLES
  comments,          \* the pull request's comment thread: bodies, oldest first;
                     \* a comment's id is its position
  inputs,            \* per run: the action's inputs, the event, and what
                     \* lcov --list and pulls.listFiles answer
  pc,                \* per run: the await the run is suspended at
  totalCoverage,     \* per run: optional lcovTotal(coverageFile)
  details,           \* per run: optional result of detail()
  lookup,            \* per run: locals of downloadTargetBranchCoverage
  previousCoverage,  \* per run: optional baseline record
  body,              \* per run: optional composed comment body
  existingComment,   \* per run: id found by upsertComment, 0 when none
  output,            \* per run: optional value of the total-coverage output
  failed,            \* per run: optional message given to core.setFailed
  effects,           \* per run: the tool runs, requests and outputs issued, in order
  listedAfter        \* per run: the runs whose publish had returned when this
                     \* run listed the comments

vars == <<comments, inputs, pc, totalCoverage, details, lookup, previousCoverage, body,
          existingComment, output, failed, effects, listedAfter>>

\* ------------------------------------------------------------------ values

\* A comment of somebody else: no report header in it.
UserComment ==
  [header |-> Null, run |-> 0, diffMessage |-> Null, rendered |-> FALSE,
   detail |-> Null, notice |-> Null]

\* error.message of the exceptions run() can see.
Message(text) == [text |-> text, coverage |-> Null, minimum |-> Null]

\* main.js:31
ErrorMessage(total, minimum) ==
  [text |-> "The code coverage is too low", coverage |-> Some(total),
   minimum |-> Some(minimum)]

\* Number(minimumCoverage), as the >= of main.js:32 converts its string
\* operand: "" is 0, a numeral its value, anything else NaN (absent here).
ToNumber(s) ==
  CASE s = "" -> Some(0)
    [] s = "90" -> Some(9000)
    [] OTHER -> Null

\* Mutant of IsMinimumCoverageReached: the minimum must be exceeded.
IsMinimumCoverageExceeded(total, minimum) ==
  LET m == ToNumber(minimum) IN m # Null /\ total > m[1]

\* main.js:32: totalCoverage >= minimumCoverage; false when either is NaN.
IsMinimumCoverageReached(total, minimum) ==
  LET m == ToNumber(minimum) IN m # Null /\ total >= m[1]

\* main.js:34
HasGithubToken(r) == inputs[r].token # ""
\* main.js:35
IsPR(r) == inputs[r].eventName \in events

\* main.js:44: the header embeds the title prefix and nothing of the run.
CommentHeaderPrefix(r) == Some(inputs[r].titlePrefix)

\* String.prototype.includes of main.js:113 on the bodies of the model: a body
\* holds a header exactly when it was composed with that header.
Includes(b, header) == b.header = header

\* The decimal digits, and the decimal numeral of a natural number.
DigitChars == <<"0", "1", "2", "3", "4", "5", "6", "7", "8", "9">>
Digit(d) == DigitChars[d + 1]

RECURSIVE Decimal(_)
Decimal(n) == IF n < 10 THEN <<Digit(n)>> ELSE Decimal(n \div 10) \o <<Digit(n % 10)>>

\* Mutant of ToFixed2: trailing zeros of the fraction are dropped.
ToFixedShortest(x) ==
  LET a == IF x < 0 THEN -x ELSE x
  IN (IF x < 0 THEN <<"-">> ELSE <<>>) \o Decimal(a \div 100)
       \o (IF a % 100 = 0 THEN <<>>
           ELSE IF a % 10 = 0 THEN <<".", Digit((a % 100) \div 10)>>
           ELSE <<".", Digit((a % 100) \div 10), Digit(a % 10)>>)

\* Number.prototype.toFixed(2) (main.js:50, 52, 54) of the number that is x
\* hundredths: the characters of its numeral with two decimals.
ToFixed2(x) ==
  LET a == IF x < 0 THEN -x ELSE x
  IN (IF x < 0 THEN <<"-">> ELSE <<>>) \o Decimal(a \div 100)
       \o <<".", Digit((a % 100) \div 10), Digit(a % 10)>>

\* main.js:46-55: the line's numbers, and the characters they are written with.
DiffMessage(total, previous) ==
  IF previous # Null
    THEN LET diff == total - previous[1].coverage
             sign == IF diff > 0 THEN "+" ELSE ""
         IN Some([kind |-> "diff", diff |-> diff, sign |-> sign,
                  from |-> previous[1].coverage, to |-> total,
                  base |-> previous[1].targetBranchSha,
                  change |-> (IF sign = "+" THEN <<"+">> ELSE <<>>) \o ToFixed2(diff),
                  fromText |-> ToFixed2(previous[1].coverage),
                  toText |-> ToFixed2(total)])
    ELSE Some([kind |-> "total", diff |-> 0, sign |-> "", from |-> total,
               to |-> total, base |-> "",
               change |-> <<>>, fromText |-> <<>>, toText |-> ToFixed2(total)])

\* Mutant of ComposeBody: the notice is added also at the minimum itself.
ComposeBodyNoticeAtMinimum(r) ==
  [header |-> CommentHeaderPrefix(r),
   run |-> r,
   diffMessage |-> DiffMessage(totalCoverage[r][1], previousCoverage[r]),
   rendered |-> TRUE,
   detail |-> details[r],
   notice |-> IF IsMinimumCoverageExceeded(totalCoverage[r][1], inputs[r].minimumCoverage)
                THEN Null
                ELSE Some(ErrorMessage(totalCoverage[r][1], inputs[r].minimumCoverage))]

\* main.js:56-60
ComposeBody(r) ==
  [header |-> CommentHeaderPrefix(r),
   run |-> r,
   diffMessage |-> DiffMessage(totalCoverage[r][1], previousCoverage[r]),
   rendered |-> TRUE,
   detail |-> details[r],
   notice |-> IF IsMinimumCoverageReached(totalCoverage[r][1], inputs[r].minimumCoverage)
                THEN Null
                ELSE Some(ErrorMessage(totalCoverage[r][1], inputs[r].minimumCoverage))]

\* main.js:14-92: run() has returned when pc is "done"; it has failed when
\* core.setFailed was called, and has passed otherwise.
Status(r) ==
  IF pc[r] # "done" THEN "Running"
  ELSE IF failed[r] # Null THEN "Failed" ELSE "Passed"

\* ------------------------------------------------------- control transfers

\* The run goes on to the await at `label`, having issued `evs`.
Goto(r, label, evs) ==
  /\ pc' = [pc EXCEPT ![r] = label]
  /\ effects' = [effects EXCEPT ![r] = @ \o evs]
  /\ UNCHANGED failed

\* Mutant of Catch: the catch fails the run without the exception's message.
CatchWithoutMessage(r, error, evs) ==
  /\ pc' = [pc EXCEPT ![r] = "done"]
  /\ effects' = [effects EXCEPT ![r] = @ \o evs \o <<"setFailed">>]
  /\ failed' = [failed EXCEPT ![r] = Some(Message("Action failed"))]

\* main.js:89-91: an exception anywhere in run() lands in the catch, which
\* hands its message to core.setFailed; run() then returns.
Catch(r, error, evs) ==
  /\ pc' = [pc EXCEPT ![r] = "done"]
  /\ effects' = [effects EXCEPT ![r] = @ \o evs \o <<"setFailed">>]
  /\ failed' = [failed EXCEPT ![r] = Some(error)]

\* Mutant of AfterComment: the coverage upload is left out.
AfterCommentWithoutUpload(r) == "setOutput"

\* main.js:71-82: where run() goes once the comment step is over.
AfterComment(r) ==
  IF HasGithubToken(r) /\ inputs[r].coverageArtifactName # ""
    THEN "uploadArtifact" ELSE "setOutput"

\* ------------------------------------------------------------ the pipeline

\* main.js:16-25, 233-242: the inputs are read and genhtml runs first.
GenHtml(r) ==
  /\ pc[r] = "genhtml"
  /\ \/ Goto(r, IF inputs[r].artifactName # "" THEN "uploadHtml" ELSE "mergeCoverages",
             <<"genhtml">>)
     \/ Catch(r, Message("genhtml failed"), <<"genhtml">>)
  /\ UNCHANGED <<comments, inputs, details, totalCoverage, lookup, previousCoverage, body,
                 existingComment, output, listedAfter>>

\* main.js:244-256: the HTML report is uploaded when artifact-name is set.
UploadHtml(r) ==
  /\ pc[r] = "uploadHtml"
  /\ \/ Goto(r, "mergeCoverages", <<"uploadArtifact html">>)
     \/ Catch(r, Message("html upload failed"), <<"uploadArtifact html">>)
  /\ UNCHANGED <<comments, inputs, details, totalCoverage, lookup, previousCoverage, body,
                 existingComment, output, listedAfter>>

\* main.js:27-28, 262-279: lcov merges the trace files; lcovTotal reads the
\* merged file.
MergeCoverages(r) ==
  /\ pc[r] = "mergeCoverages"
  /\ \/ \E c \in TotalCoverages :
          /\ totalCoverage' = [totalCoverage EXCEPT ![r] = Some(c)]
          /\ Goto(r, "getOctokit", <<"lcov merge", "lcovTotal">>)
     \/ /\ Catch(r, Message("lcov failed"), <<"lcov merge">>)
        /\ UNCHANGED totalCoverage
  /\ UNCHANGED <<comments, inputs, details, lookup, previousCoverage, body,
                 existingComment, output, listedAfter>>

\* github.getOctokit(token) (main.js:37) refuses an empty token:
\* "Parameter token or opts.auth is required".
GetOctokitThrows(token) == token = ""

\* Mutant of AfterOctokit: the upload sits inside the comment branch, so a run
\* on another event skips it.
AfterOctokitUploadInBranch(r) ==
  IF HasGithubToken(r) /\ IsPR(r) THEN "summarize" ELSE "setOutput"

\* main.js:38, 63-69: the comment branch is taken with a token on a pull
\* request event; otherwise run() goes on to the upload.
AfterOctokit(r) ==
  IF HasGithubToken(r) /\ IsPR(r) THEN "summarize" ELSE AfterComment(r)

\* main.js:29-38, 63-69
GetOctokit(r) ==
  /\ pc[r] = "getOctokit"
  /\ IF GetOctokitThrows(inputs[r].token)
       THEN Catch(r, Message("Parameter token or opts.auth is required"), <<"getOctokit">>)
       ELSE Goto(r, AfterOctokit(r),
                 IF HasGithubToken(r) /\ IsPR(r)
                   THEN <<"getOctokit">>
                   ELSE <<"getOctokit", "info: skipping comment">>)
  /\ UNCHANGED <<comments, inputs, details, totalCoverage, lookup, previousCoverage, body,
                 existingComment, output, listedAfter>>

\* main.js:39, 281-308
Summarize(r) ==
  /\ pc[r] = "summarize"
  /\ \/ Goto(r, "detail", <<"lcov --summary">>)
     \/ Catch(r, Message("lcov failed"), <<"lcov --summary">>)
  /\ UNCHANGED <<comments, inputs, details, totalCoverage, lookup, previousCoverage, body,
                 existingComment, output, listedAfter>>

\* main.js:40, 310-337
Detail(r) ==
  /\ pc[r] = "detail"
  /\ \/ Goto(r, "listFiles", <<"lcov --list">>)
     \/ Catch(r, Message("lcov failed"), <<"lcov --list">>)
  /\ UNCHANGED <<comments, inputs, details, totalCoverage, lookup, previousCoverage, body,
                 existingComment, output, listedAfter>>

\* main.js:331-337: the lines of lcov's output less the first
\* ("Reading tracefile...") and the last two ("====" and "Total...").
Shift(lines) == SubSeq(lines, 2, Len(lines))
Pop(lines) == SubSeq(lines, 1, Len(lines) - 1)
DetailLines(stdout) == Pop(Pop(Shift(stdout)))

\* Mutant of StartsWith: the line's path is the changed file's path.
PathEquals(line, prefix) == line = prefix \o <<"|">>

\* String.prototype.startsWith (main.js:354); a string is the sequence of
\* its characters.
StartsWith(line, prefix) ==
  /\ Len(prefix) <= Len(line)
  /\ SubSeq(line, 1, Len(prefix)) = prefix

\* main.js:348-358: the callback of lines.filter, on the line at 0-based
\* `index`.
KeepLine(line, index, changedFiles) ==
  \/ index <= 2
  \/ \E k \in 1..Len(changedFiles) : StartsWith(line, changedFiles[k])

\* main.js:348-358: Array.prototype.filter, from 1-based position i on.
RECURSIVE FilterFrom(_, _, _)
FilterFrom(lines, i, changedFiles) ==
  IF i > Len(lines) THEN <<>>
  ELSE (IF KeepLine(lines[i], i - 1, changedFiles) THEN <<lines[i]>> ELSE <<>>)
         \o FilterFrom(lines, i + 1, changedFiles)

FilterLines(lines, changedFiles) == FilterFrom(lines, 1, changedFiles)

\* main.js:360-364: ' n/a' when only the header remains, else the lines, each
\* on a line of its own.
DetailText(lines) ==
  IF Len(lines) = 3 THEN [text |-> " n/a", lines |-> <<>>]
  ELSE [text |-> "lines", lines |-> lines]

\* Mutant of ListFiles: the comment is composed without the baseline lookup.
ListFilesThenCompose(r) ==
  /\ pc[r] = "listFiles"
  /\ \/ /\ details' = [details EXCEPT ![r] =
                          Some(DetailText(FilterLines(DetailLines(inputs[r].lcovList),
                                                      inputs[r].changedFiles)))]
        /\ Goto(r, "compose", <<"listFiles", "filter">>)
     \/ /\ Catch(r, Message("listFiles failed"), <<"listFiles">>)
        /\ UNCHANGED details
  /\ UNCHANGED <<comments, inputs, totalCoverage, lookup, previousCoverage, body,
                 existingComment, output, listedAfter>>

\* main.js:339-364: the changed files are listed and the rows filtered; then
\* calculatePreviousCoverage is called (main.js:41).
ListFiles(r) ==
  /\ pc[r] = "listFiles"
  /\ \/ /\ details' = [details EXCEPT ![r] =
                          Some(DetailText(FilterLines(DetailLines(inputs[r].lcovList),
                                                      inputs[r].changedFiles)))]
        /\ Goto(r, "listWorkflowRuns", <<"listFiles", "filter">>)
     \/ /\ Catch(r, Message("listFiles failed"), <<"listFiles">>)
        /\ UNCHANGED details
  /\ UNCHANGED <<comments, inputs, totalCoverage, lookup, previousCoverage, body,
                 existingComment, output, listedAfter>>

\* -------------------------------------------------- the baseline lookup

\* Mutant of Absent: a lookup that ends with no baseline throws to run().
AbsentThrows(r, evs) ==
  /\ UNCHANGED previousCoverage
  /\ Catch(r, Message("no baseline"), evs)

\* main.js:139-145: the lookup ended with no baseline (a caught exception or
\* a falsy result): calculatePreviousCoverage returns null and run() goes on.
Absent(r, evs) ==
  /\ previousCoverage' = [previousCoverage EXCEPT ![r] = Null]
  /\ Goto(r, "compose", evs)

\* octokit.rest.actions.listWorkflowRunsForRepo(per_page: 1) on a listing.
FirstRun(listing) == SubSeq(listing, 1, IF Len(listing) < 1 THEN Len(listing) ELSE 1)

\* main.js:155-179
ListWorkflowRuns(r) ==
  /\ pc[r] = "listWorkflowRuns"
  /\ \/ \E listing \in WorkflowRunListings :
          IF Len(FirstRun(listing)) = 0
            THEN /\ Absent(r, <<"listWorkflowRuns", "warning: no workflow runs">>)
                 /\ UNCHANGED lookup
            ELSE /\ lookup' = [lookup EXCEPT ![r] =
                                  [run |-> FirstRun(listing), path |-> Null, files |-> 0,
                                   listing |-> listing,
                                   findBy |-> Some(FirstRun(listing)[1].id)]]
                 /\ Goto(r, "getArtifact", <<"listWorkflowRuns">>)
                 /\ UNCHANGED previousCoverage
     \/ /\ Absent(r, <<"listWorkflowRuns", "warning: error loading previous coverage">>)
        /\ UNCHANGED lookup
  /\ UNCHANGED <<comments, inputs, details, totalCoverage, body, existingComment, output,
                 listedAfter>>

\* main.js:190-195: the first getArtifact, in downloadTargetBranchCoverage.
GetArtifact(r) ==
  /\ pc[r] = "getArtifact"
  /\ \/ /\ Goto(r, "getArtifactAgain", <<"getArtifact">>)
        /\ UNCHANGED previousCoverage
     \/ Absent(r, <<"getArtifact", "warning: no artifact found">>)
     \/ Absent(r, <<"getArtifact", "warning: error loading previous coverage">>)
  /\ UNCHANGED <<comments, inputs, details, totalCoverage, lookup, body, existingComment,
                 output, listedAfter>>

\* main.js:197, 207-213: the second getArtifact, in downloadSingleFileArtifact.
\* With no artifact the function returns undefined, which becomes the path of
\* the record downloadTargetBranchCoverage returns (main.js:200-204).
GetArtifactAgain(r) ==
  /\ pc[r] = "getArtifactAgain"
  /\ \/ /\ Goto(r, "downloadArtifact", <<"getArtifact">>)
        /\ UNCHANGED previousCoverage
     \/ /\ Goto(r, "lcovTotalPrevious", <<"getArtifact", "warning: no artifact found">>)
        /\ UNCHANGED previousCoverage
     \/ Absent(r, <<"getArtifact", "warning: error loading previous coverage">>)
  /\ UNCHANGED <<comments, inputs, details, totalCoverage, lookup, body, existingComment,
                 output, listedAfter>>

\* The numbers of files the download may leave in the destination directory.
MaxFiles == 2
FileCounts == 0..MaxFiles

\* Mutant of SingleFile: with several files the first is taken.
SingleFileOrFirst(n) == IF n >= 1 THEN Some("file1") ELSE Null

\* main.js:223-230: exactly one file is the path; any other count throws.
SingleFile(n) == IF n = 1 THEN Some("file1") ELSE Null

\* main.js:215-230, 199-204
DownloadArtifact(r) ==
  /\ pc[r] = "downloadArtifact"
  /\ \/ \E n \in FileCounts :
          /\ lookup' = [lookup EXCEPT ![r].path = SingleFile(n), ![r].files = n]
          /\ IF SingleFile(n) = Null
               THEN Absent(r, <<"downloadArtifact", "readdir",
                                "warning: error loading previous coverage">>)
               ELSE /\ Goto(r, "lcovTotalPrevious", <<"downloadArtifact", "readdir">>)
                    /\ UNCHANGED previousCoverage
     \/ /\ Absent(r, <<"downloadArtifact", "warning: error loading previous coverage">>)
        /\ UNCHANGED lookup
  /\ UNCHANGED <<comments, inputs, details, totalCoverage, body, existingComment, output,
                 listedAfter>>

\* main.js:136-138: the test reads the path module, not the downloaded path,
\* so it never returns null.
PathIsMissing(r) == FALSE

\* main.js:136-150: outside the try, lcovTotal reads coverage.path; it throws
\* on an undefined path or on a file it cannot read.
LcovTotalPrevious(r) ==
  /\ pc[r] = "lcovTotalPrevious"
  /\ IF PathIsMissing(r)
       THEN Absent(r, <<>>)
       ELSE \/ /\ lookup[r].path # Null
               /\ \E p \in BaselineCoverages :
                    previousCoverage' =
                      [previousCoverage EXCEPT ![r] =
                         Some([coverage |-> p, path |-> lookup[r].path[1],
                               runId |-> lookup[r].run[1].id,
                               targetBranchSha |-> lookup[r].run[1].head_sha])]
               /\ Goto(r, "compose", <<"lcovTotal previous">>)
            \/ /\ Catch(r, Message("lcovTotal failed"), <<"lcovTotal previous">>)
               /\ UNCHANGED previousCoverage
  /\ UNCHANGED <<comments, inputs, details, totalCoverage, lookup, body, existingComment,
                 output, listedAfter>>

\* ------------------------------------------------------ the comment step

\* Mutant of Compose: the body is composed and not published.
ComposeWithoutPublish(r) ==
  /\ pc[r] = "compose"
  /\ body' = [body EXCEPT ![r] = Some(ComposeBody(r))]
  /\ Goto(r, AfterComment(r), <<"compose">>)
  /\ UNCHANGED <<comments, inputs, details, totalCoverage, lookup, previousCoverage,
                 existingComment, output, listedAfter>>

\* main.js:42-62: the body is composed, then published in the chosen mode.
Compose(r) ==
  /\ pc[r] = "compose"
  /\ body' = [body EXCEPT ![r] = Some(ComposeBody(r))]
  /\ Goto(r, IF inputs[r].updateComment THEN "listComments" ELSE "createComment",
          <<"compose">>)
  /\ UNCHANGED <<comments, inputs, details, totalCoverage, lookup, previousCoverage,
                 existingComment, output, listedAfter>>

\* main.js:106-110: what issues.listComments answers: the first page.
ListedComments(thread) ==
  SubSeq(thread, 1, IF Len(thread) < PerPage THEN Len(thread) ELSE PerPage)

\* Mutant of FindComment: the last comment listed is taken, whatever it holds.
FindLastComment(listed, header) == Len(listed)

\* main.js:112-114: Array.prototype.find; the id of the first comment of
\* `listed` whose body includes the header, 0 when there is none.
FindComment(listed, header) ==
  LET hits == {i \in 1..Len(listed) : Includes(listed[i], header)}
  IN IF hits = {} THEN 0 ELSE CHOOSE i \in hits : \A j \in hits : i <= j

\* The comment request of run q has returned.
PublishReturned(q) ==
  \E i \in 1..Len(effects[q]) :
     /\ effects[q][i] \in {"createComment", "updateComment"}
     /\ (i < Len(effects[q]) => effects[q][i + 1] # "setFailed")

\* main.js:105-116
ListComments(r) ==
  /\ pc[r] = "listComments"
  /\ \/ /\ existingComment' =
             [existingComment EXCEPT ![r] =
                FindComment(ListedComments(comments), CommentHeaderPrefix(r))]
        /\ listedAfter' = [listedAfter EXCEPT ![r] = {q \in Runs : PublishReturned(q)}]
        /\ Goto(r, IF existingComment'[r] # 0 THEN "updateComment" ELSE "createComment",
                <<"listComments">>)
     \/ /\ Catch(r, Message("listComments failed"), <<"listComments">>)
        /\ UNCHANGED <<existingComment, listedAfter>>
  /\ UNCHANGED <<comments, inputs, details, totalCoverage, lookup, previousCoverage, body,
                 output>>

\* main.js:116-124
UpdateComment(r) ==
  /\ pc[r] = "updateComment"
  /\ \/ /\ comments' = [comments EXCEPT ![existingComment[r]] = body[r][1]]
        /\ Goto(r, AfterComment(r), <<"updateComment">>)
     \/ /\ Catch(r, Message("updateComment failed"), <<"updateComment">>)
        /\ UNCHANGED comments
  /\ UNCHANGED <<inputs, details, totalCoverage, lookup, previousCoverage, body,
                 existingComment, output, listedAfter>>

\* main.js:94-103, 125-129
CreateComment(r) ==
  /\ pc[r] = "createComment"
  /\ \/ /\ comments' = Append(comments, body[r][1])
        /\ Goto(r, AfterComment(r), <<"createComment">>)
     \/ /\ Catch(r, Message("createComment failed"), <<"createComment">>)
        /\ UNCHANGED comments
  /\ UNCHANGED <<inputs, details, totalCoverage, lookup, previousCoverage, body,
                 existingComment, output, listedAfter>>

\* ------------------------------------------------ upload, output and gate

\* main.js:71-79
UploadArtifact(r) ==
  /\ pc[r] = "uploadArtifact"
  /\ \/ Goto(r, "setOutput", <<"uploadArtifact coverage">>)
     \/ Catch(r, Message("coverage upload failed"), <<"uploadArtifact coverage">>)
  /\ UNCHANGED <<comments, inputs, details, totalCoverage, lookup, previousCoverage, body,
                 existingComment, output, listedAfter>>

\* Mutant of SetOutput: the gate throws before the output is set.
SetOutputAfterGate(r) ==
  /\ pc[r] = "setOutput"
  /\ IF IsMinimumCoverageReached(totalCoverage[r][1], inputs[r].minimumCoverage)
       THEN /\ output' = [output EXCEPT ![r] = totalCoverage[r]]
            /\ pc' = [pc EXCEPT ![r] = "done"]
            /\ effects' = [effects EXCEPT ![r] = Append(@, "setOutput")]
            /\ UNCHANGED failed
       ELSE /\ Catch(r, ErrorMessage(totalCoverage[r][1], inputs[r].minimumCoverage),
                     <<>>)
            /\ UNCHANGED output
  /\ UNCHANGED <<comments, inputs, details, totalCoverage, lookup, previousCoverage, body,
                 existingComment, listedAfter>>

\* main.js:84-91: the output is set, then the gate throws when the minimum
\* is not reached; otherwise run() returns.
SetOutput(r) ==
  /\ pc[r] = "setOutput"
  /\ output' = [output EXCEPT ![r] = totalCoverage[r]]
  /\ IF IsMinimumCoverageReached(totalCoverage[r][1], inputs[r].minimumCoverage)
       THEN /\ pc' = [pc EXCEPT ![r] = "done"]
            /\ effects' = [effects EXCEPT ![r] = Append(@, "setOutput")]
            /\ UNCHANGED failed
       ELSE Catch(r, ErrorMessage(totalCoverage[r][1], inputs[r].minimumCoverage),
                  <<"setOutput">>)
  /\ UNCHANGED <<comments, inputs, details, totalCoverage, lookup, previousCoverage, body,
                 existingComment, listedAfter>>

\* ------------------------------------------------------- specifications

\* The first line of lcov's output, the three header lines of its table, and
\* the two lines that end the table.
ReadingLine == <<"R">>
HeaderLines == <<<<" ", "|", "L">>, <<"F", "|", "R">>, <<"=">>>>
TotalLines == <<<<"=">>, <<"T", "|">>>>

\* The data row of a source file: its path, then the rates.
Row(path) == path \o <<"|">>

\* What lcov --list prints for the source files at `paths`
\* (main.js:323-333).
LcovList(paths) ==
  <<ReadingLine>> \o HeaderLines \o [i \in 1..Len(paths) |-> Row(paths[i])] \o TotalLines

\* The sequences over S of at most n elements.
SeqsUpTo(S, n) == UNION {[1..k -> S] : k \in 0..n}

\* The paths of source files and of changed files.
Paths == {<<"a">>, <<"a", "b">>, <<"b", "a">>}
ChangedPaths == {<<"a">>, <<"a", "b">>, <<"c">>}

\* The inputs of one invocation (main.js:17-35, 234-235), with what lcov
\* --list prints and pulls.listFiles answers in it: here a table of two
\* files, and a pull request that changed one of them.
Inputs ==
  [token : Tokens, eventName : EventNames, titlePrefix : TitlePrefixes,
   updateComment : BOOLEAN, artifactName : ArtifactNames,
   coverageArtifactName : CoverageArtifactNames, minimumCoverage : MinimumInputs,
   lcovList : {LcovList(<<<<"a", "b">>, <<"b", "a">>>>)},
   changedFiles : {<<<<"a">>>>}]

\* A report an earlier invocation left on the pull request.
EarlierReport ==
  [header |-> Some(""), run |-> 0, diffMessage |-> DiffMessage(9000, Null),
   rendered |-> TRUE, detail |-> Some([text |-> " n/a", lines |-> <<>>]),
   notice |-> Null]

\* The numbers of unrelated comments a pull request starts with: whole pages,
\* and whole pages less one.
UnrelatedCounts ==
  {p * PerPage + k : p \in 0..MaxFullPages, k \in {0, PerPage - 1}}

Unrelated(n) == [i \in 1..n |-> UserComment]

NoLookup == [run |-> Null, path |-> Null, files |-> 0, listing |-> <<>>, findBy |-> Null]

\* What every run starts with.
Fresh ==
  /\ totalCoverage = [r \in Runs |-> Null]
  /\ details = [r \in Runs |-> Null]
  /\ lookup = [r \in Runs |-> NoLookup]
  /\ previousCoverage = [r \in Runs |-> Null]
  /\ body = [r \in Runs |-> Null]
  /\ existingComment = [r \in Runs |-> 0]
  /\ output = [r \in Runs |-> Null]
  /\ failed = [r \in Runs |-> Null]
  /\ effects = [r \in Runs |-> <<>>]
  /\ listedAfter = [r \in Runs |-> {}]

\* One invocation of run() on a pull request that carries unrelated comments
\* and perhaps an earlier report; the workflow's other runs are not started.
Init ==
  /\ \E n \in UnrelatedCounts, old \in BOOLEAN :
       comments = Unrelated(n) \o (IF old THEN <<EarlierReport>> ELSE <<>>)
  /\ \E i \in Inputs : inputs = [r \in Runs |-> i]
  /\ pc = [r \in Runs |-> IF r = 1 THEN "genhtml" ELSE "idle"]
  /\ Fresh

Next ==
  \E r \in Runs :
    \/ GenHtml(r)
    \/ UploadHtml(r)
    \/ MergeCoverages(r)
    \/ GetOctokit(r)
    \/ Summarize(r)
    \/ Detail(r)
    \/ ListFiles(r)
    \/ ListWorkflowRuns(r)
    \/ GetArtifact(r)
    \/ GetArtifactAgain(r)
    \/ DownloadArtifact(r)
    \/ LcovTotalPrevious(r)
    \/ Compose(r)
    \/ ListComments(r)
    \/ UpdateComment(r)
    \/ CreateComment(r)
    \/ UploadArtifact(r)
    \/ SetOutput(r)

Spec == Init /\ [][Next]_vars

\* Every call run() awaits returns or raises, so a run that can take a step
\* takes one.
FairSpec == Spec /\ WF_vars(Next)

\* Several invocations on one pull request, each arrived at the comment step
\* (main.js:42) with a token, on a pull request event, with no baseline; the
\* pull request carries unrelated comments only.
PublishInputs ==
  {i \in Inputs : /\ i.token # ""
                  /\ i.eventName \in events
                  /\ i.artifactName = ""
                  /\ i.coverageArtifactName = ""
                  /\ i.minimumCoverage = "90"}

\* What a run has issued when it arrives there.
EffectsBeforeCompose ==
  <<"genhtml", "lcov merge", "lcovTotal", "getOctokit", "lcov --summary", "lcov --list",
    "listFiles", "filter", "listWorkflowRuns", "warning: no workflow runs">>

InitPR ==
  /\ \E n \in UnrelatedCounts : comments = Unrelated(n)
  /\ inputs \in [Runs -> PublishInputs]
  /\ pc = [r \in Runs |-> "compose"]
  /\ totalCoverage \in [Runs -> {Some(c) : c \in TotalCoverages}]
  /\ details = [r \in Runs |->
                  Some(DetailText(FilterLines(DetailLines(inputs[r].lcovList),
                                              inputs[r].changedFiles)))]
  /\ lookup = [r \in Runs |-> NoLookup]
  /\ previousCoverage = [r \in Runs |-> Null]
  /\ body = [r \in Runs |-> Null]
  /\ existingComment = [r \in Runs |-> 0]
  /\ output = [r \in Runs |-> Null]
  /\ failed = [r \in Runs |-> Null]
  /\ effects = [r \in Runs |-> EffectsBeforeCompose]
  /\ listedAfter = [r \in Runs |-> {}]

NextPR ==
  \E r \in Runs :
    \/ Compose(r)
    \/ ListComments(r)
    \/ UpdateComment(r)
    \/ CreateComment(r)

SpecPR == InitPR /\ [][NextPR]_vars

\* Coverages from 0% to 100%, in hundredths of a percent.
CoverageSamples == {0, 5, 50, 999, 8000, 8250, 9000, 10000}

\* A run arrived at the comment step (main.js:42) with a baseline record, for
\* every pair of these coverages.
InitCompose ==
  /\ \E n \in UnrelatedCounts : comments = Unrelated(n)
  /\ \E i \in Inputs :
       /\ i.token # "" /\ i.eventName \in events /\ i.coverageArtifactName # ""
       /\ inputs = [r \in Runs |-> i]
  /\ pc = [r \in Runs |-> IF r = 1 THEN "compose" ELSE "idle"]
  /\ \E c \in CoverageSamples :
       totalCoverage = [r \in Runs |-> IF r = 1 THEN Some(c) ELSE Null]
  /\ details = [r \in Runs |->
                  IF r = 1
                    THEN Some(DetailText(FilterLines(DetailLines(inputs[r].lcovList),
                                                     inputs[r].changedFiles)))
                    ELSE Null]
  /\ \E listing \in WorkflowRunListings \ {<<>>} :
       /\ lookup = [r \in Runs |->
                      IF r = 1
                        THEN [run |-> FirstRun(listing), path |-> SingleFile(1), files |-> 1,
                              listing |-> listing, findBy |-> Some(FirstRun(listing)[1].id)]
                        ELSE NoLookup]
       /\ \E p \in CoverageSamples :
            previousCoverage =
              [r \in Runs |->
                 IF r = 1
                   THEN Some([coverage |-> p, path |-> SingleFile(1)[1],
                              runId |-> FirstRun(listing)[1].id,
                              targetBranchSha |-> FirstRun(listing)[1].head_sha])
                   ELSE Null]
  /\ body = [r \in Runs |-> Null]
  /\ existingComment = [r \in Runs |-> 0]
  /\ output = [r \in Runs |-> Null]
  /\ failed = [r \in Runs |-> Null]
  /\ effects = [r \in Runs |->
                  IF r = 1
                    THEN <<"genhtml", "lcov merge", "lcovTotal", "getOctokit",
                           "lcov --summary", "lcov --list", "listFiles", "filter",
                           "listWorkflowRuns", "getArtifact", "getArtifact",
                           "downloadArtifact", "readdir", "lcovTotal previous">>
                    ELSE <<>>]
  /\ listedAfter = [r \in Runs |-> {}]

NextCompose == \E r \in Runs : Compose(r)

SpecCompose == InitCompose /\ [][NextCompose]_vars

\* The numbers of rows of lcov's table and of changed files.
MaxRows == 2
MaxChanged == 2

\* detail() alone (main.js:310-365), on every table and every list of changed
\* files of these sizes.
DetailInputs ==
  [token : {"ghs_token"}, eventName : {"pull_request"}, titlePrefix : {""},
   updateComment : {TRUE}, artifactName : {""}, coverageArtifactName : {""},
   minimumCoverage : {""},
   lcovList : {LcovList(paths) : paths \in SeqsUpTo(Paths, MaxRows)},
   changedFiles : SeqsUpTo(ChangedPaths, MaxChanged)]

InitDetail ==
  /\ comments = <<>>
  /\ \E i \in DetailInputs : inputs = [r \in Runs |-> i]
  /\ pc = [r \in Runs |-> IF r = 1 THEN "detail" ELSE "idle"]
  /\ \E c \in TotalCoverages :
       totalCoverage = [r \in Runs |-> IF r = 1 THEN Some(c) ELSE Null]
  /\ details = [r \in Runs |-> Null]
  /\ lookup = [r \in Runs |-> NoLookup]
  /\ previousCoverage = [r \in Runs |-> Null]
  /\ body = [r \in Runs |-> Null]
  /\ existingComment = [r \in Runs |-> 0]
  /\ output = [r \in Runs |-> Null]
  /\ failed = [r \in Runs |-> Null]
  /\ effects = [r \in Runs |->
                  IF r = 1 THEN <<"genhtml", "lcov merge", "lcovTotal", "getOctokit",
                                  "lcov --summary">>
                  ELSE <<>>]
  /\ listedAfter = [r \in Runs |-> {}]

NextDetail ==
  \E r \in Runs :
    \/ Detail(r)
    \/ ListFiles(r)

SpecDetail == InitDetail /\ [][NextDetail]_vars

\* ------------------------------------------------------------ the claims

\* The ids of the comments whose body includes `header`.
MarkerComments(header) ==
  {c \in 1..Len(comments) : Includes(comments[c], header)}

\* Run r has issued a comment write (created or updated, returned or not).
IssuedWrite(r) ==
  \E i \in 1..Len(effects[r]) : effects[r][i] \in {"createComment", "updateComment"}

\* C1: two successive update-mode publishes with the same header (the second
\* lists the comments after the first has returned, and no other publish with
\* that header has written) leave exactly one comment with the header, whose
\* body is the second publish's body.
C1_TwoPublishesOneComment ==
  \A i, j \in Runs :
    ( /\ i # j
      /\ inputs[i].updateComment /\ inputs[j].updateComment
      /\ CommentHeaderPrefix(i) = CommentHeaderPrefix(j)
      /\ PublishReturned(i) /\ PublishReturned(j)
      /\ i \in listedAfter[j]
      /\ \A k \in Runs \ {i, j} :
           CommentHeaderPrefix(k) = CommentHeaderPrefix(i) => ~IssuedWrite(k) )
    => /\ Cardinality(MarkerComments(CommentHeaderPrefix(j))) = 1
       /\ \A c \in MarkerComments(CommentHeaderPrefix(j)) : comments[c] = body[j][1]

\* C2: when every invocation with a given title prefix runs in update mode, at
\* most one comment with that header exists on the pull request, however the
\* invocations' list and create/update steps interleave.
C2_AtMostOneMarkedComment ==
  \A h \in {Some(t) : t \in TitlePrefixes} :
    (\A r \in Runs : CommentHeaderPrefix(r) = h => inputs[r].updateComment)
    => Cardinality(MarkerComments(h)) <= 1

\* Reading the effects of a run.
Has(r, e) == \E i \in 1..Len(effects[r]) : effects[r][i] = e

\* The place of the first e among the effects of r, 0 when there is none.
Pos(r, e) ==
  IF Has(r, e)
    THEN CHOOSE i \in 1..Len(effects[r]) :
           /\ effects[r][i] = e
           /\ \A j \in 1..(i - 1) : effects[r][j] # e
    ELSE 0

Before(r, a, b) == Has(r, a) /\ Has(r, b) /\ Pos(r, a) < Pos(r, b)

\* The step whose exception the catch of run() received.
Raiser(r) == effects[r][Len(effects[r]) - 1]

WriteEffects == {"createComment", "updateComment"}
GateText == "The code coverage is too low"

\* total < Number(minimum), both numbers.
StrictlyBelow(total, minimum) ==
  ToNumber(minimum) # Null /\ total < ToNumber(minimum)[1]

\* C3: a run whose aggregate coverage is strictly below the minimum and in
\* which no other step raised ends Failed with the gate's message, naming the
\* coverage and the minimum, and only after the comment was published (token
\* and pull request), the coverage upload attempted (token and artifact name)
\* and the output set.
C3_GateAppliedLast ==
  \A r \in Runs :
    ( /\ pc[r] = "done"
      /\ totalCoverage[r] # Null
      /\ StrictlyBelow(totalCoverage[r][1], inputs[r].minimumCoverage)
      /\ (failed[r] # Null => failed[r][1].text = GateText) )
    => /\ failed[r] = Some(ErrorMessage(totalCoverage[r][1], inputs[r].minimumCoverage))
       /\ effects[r][Len(effects[r])] = "setFailed"
       /\ Pos(r, "setFailed") = Len(effects[r])
       /\ (HasGithubToken(r) /\ IsPR(r)) =>
            /\ PublishReturned(r)
            /\ \E w \in WriteEffects : Before(r, w, "setFailed")
       /\ (HasGithubToken(r) /\ inputs[r].coverageArtifactName # "") =>
            Before(r, "uploadArtifact coverage", "setFailed")
       /\ output[r] = totalCoverage[r]
       /\ Before(r, "setOutput", "setFailed")

C3_Witness ==
  \E r \in Runs :
    /\ pc[r] = "done"
    /\ failed[r] # Null /\ failed[r][1].text = GateText
    /\ failed[r][1].coverage = Some(8250) /\ failed[r][1].minimum = Some("90")
    /\ PublishReturned(r)
    /\ Has(r, "uploadArtifact coverage")
    /\ output[r] = Some(8250)

\* C4 as claimed: every run that has ended has set the output to the
\* aggregate coverage of the merged file, also when comment publishing or an
\* upload raised (stated of the runs that were given a token and in which
\* genhtml and lcov succeeded).
C4_OutputAlwaysSet ==
  \A r \in Runs :
    ( /\ pc[r] = "done" /\ totalCoverage[r] # Null /\ HasGithubToken(r)
      /\ (failed[r] # Null => failed[r][1].text \notin {"genhtml failed", "lcov failed"}) )
    => output[r] = totalCoverage[r]

\* C4, amended: a run that has ended has set the output, to the aggregate
\* coverage of the merged file, exactly when no step raised before the gate
\* (it passed, or failed at the gate); a baseline lookup that failed and was
\* absorbed does not prevent it.
C4_OutputSetUnlessAborted ==
  \A r \in Runs :
    pc[r] = "done" =>
      /\ output[r] # Null <=> (failed[r] = Null \/ failed[r][1].text = GateText)
      /\ output[r] # Null => (totalCoverage[r] # Null /\ output[r] = totalCoverage[r])
      /\ output[r] # Null <=> Has(r, "setOutput")

C4_Witness ==
  \E r \in Runs :
    /\ Status(r) = "Passed"
    /\ Has(r, "warning: error loading previous coverage")
    /\ output[r] = Some(9000)

\* What calculatePreviousCoverage and the functions it calls issue.
LookupEffects ==
  {"listWorkflowRuns", "getArtifact", "downloadArtifact", "readdir",
   "lcovTotal previous", "warning: no workflow runs", "warning: no artifact found",
   "warning: error loading previous coverage"}

\* C5: no outcome of the baseline lookup fails the run: the exception the
\* catch of run() receives is never one raised inside calculatePreviousCoverage.
C5_BaselineNeverFailsRun ==
  \A r \in Runs :
    Status(r) = "Failed" => Raiser(r) \notin LookupEffects

\* What only the comment branch (main.js:38-62) issues.
CommentBranchEffects ==
  LookupEffects \cup WriteEffects
    \cup {"lcov --summary", "lcov --list", "listFiles", "filter", "compose", "listComments"}

\* C6: with an empty token or on another event than a pull request, the run
\* lists, creates and updates no comment and looks up no baseline, and it does
\* not fail for it: when it has ended Failed, a tool or an upload failed or
\* the coverage is below the minimum.
C6_ConfigAbsenceIsNoError ==
  \A r \in Runs :
    (~HasGithubToken(r) \/ ~IsPR(r)) =>
      /\ \A e \in CommentBranchEffects : ~Has(r, e)
      /\ Status(r) = "Failed" =>
           failed[r][1].text \in {"genhtml failed", "lcov failed", "html upload failed",
                                  "coverage upload failed", GateText}
      /\ (Status(r) = "Failed" /\ failed[r][1].text = GateText) =>
           ~IsMinimumCoverageReached(totalCoverage[r][1], inputs[r].minimumCoverage)

\* error.message of the exception each step raises when it fails.
MessageOf(r, step) ==
  CASE step = "genhtml" -> Message("genhtml failed")
    [] step \in {"lcov merge", "lcov --summary", "lcov --list"} -> Message("lcov failed")
    [] step = "uploadArtifact html" -> Message("html upload failed")
    [] step = "getOctokit" -> Message("Parameter token or opts.auth is required")
    [] step = "listFiles" -> Message("listFiles failed")
    [] step = "lcovTotal previous" -> Message("lcovTotal failed")
    [] step = "listComments" -> Message("listComments failed")
    [] step = "updateComment" -> Message("updateComment failed")
    [] step = "createComment" -> Message("createComment failed")
    [] step = "uploadArtifact coverage" -> Message("coverage upload failed")
    [] step = "setOutput" ->
         ErrorMessage(totalCoverage[r][1], inputs[r].minimumCoverage)
    [] OTHER -> Message("")

\* C7: a run that was started ends, in exactly one of Passed and Failed:
\* setFailed is called at most once, as the last thing the run does, and with
\* the message of the exception of the step that raised; a run that ends
\* without it has passed.
C7_OneTerminalState ==
  /\ [](\A r \in Runs :
          /\ Status(r) = "Failed" <=> Has(r, "setFailed")
          /\ Status(r) = "Passed" <=> (pc[r] = "done" /\ ~Has(r, "setFailed"))
          /\ Has(r, "setFailed") =>
               /\ pc[r] = "done"
               /\ Pos(r, "setFailed") = Len(effects[r])
               /\ failed[r] = Some(MessageOf(r, Raiser(r))))
  /\ \A r \in Runs : (pc[r] = "genhtml") ~> (Status(r) \in {"Passed", "Failed"})

C7_Witness ==
  \E r \in Runs :
    /\ Status(r) = "Failed"
    /\ Raiser(r) = "createComment"
    /\ failed[r] = Some(Message("createComment failed"))

\* The baseline lookup of r has ended: with a record, or absorbed with a
\* warning.
BaselineEnds ==
  {"lcovTotal previous", "warning: no workflow runs", "warning: no artifact found",
   "warning: error loading previous coverage"}

\* C8: a comment is created or updated only after the merge, the summary, the
\* listing and its filtering and the baseline lookup have ended and the whole
\* body is composed, and the body written is that body; a run in which genhtml
\* or lcov failed writes no comment.
C8_NoPartialReport ==
  \A r \in Runs :
    /\ \A w \in WriteEffects \cup {"listComments"} :
         Has(r, w) =>
           /\ \A e \in {"lcov merge", "lcovTotal", "lcov --summary", "lcov --list",
                        "listFiles", "filter", "compose"} : Before(r, e, w)
           /\ \E e \in BaselineEnds : Before(r, e, "compose")
           /\ body[r] = Some(ComposeBody(r))
           /\ body[r][1].rendered /\ body[r][1].diffMessage # Null
    /\ PublishReturned(r) => \E c \in 1..Len(comments) : comments[c] = body[r][1]
    /\ \A c \in 1..Len(comments) : comments[c].run = r => comments[c] = body[r][1]
    /\ (failed[r] # Null /\ failed[r][1].text \in {"genhtml failed", "lcov failed"}) =>
         \A c \in 1..Len(comments) : comments[c].run # r

C8_Witness ==
  \E r \in Runs :
    /\ PublishReturned(r)
    /\ previousCoverage[r] # Null
    /\ \E c \in 1..Len(comments) : comments[c] = body[r][1]

\* The comment step of r is over: published, or skipped on another event
\* than a pull request.
CommentStepOver(r) ==
  IF IsPR(r) THEN PublishReturned(r) ELSE Has(r, "info: skipping comment")

\* C9 as claimed: with a token and coverage-artifact-name, once the comment
\* step was reached (or skipped for want of a pull request) the merged file's
\* upload is attempted, whatever became of the comment.
C9_UploadWhateverTheComment ==
  \A r \in Runs :
    ( /\ pc[r] = "done"
      /\ HasGithubToken(r) /\ inputs[r].coverageArtifactName # ""
      /\ (Has(r, "compose") \/ Has(r, "info: skipping comment")) )
    => Has(r, "uploadArtifact coverage")

\* C9, amended: with a token and coverage-artifact-name, a run that has ended
\* attempted the merged file's upload exactly when every step before it
\* returned without raising, whether the comment was published or skipped for
\* want of a pull request; without them it attempted none; and a run in which
\* an upload raised ended Failed there, with nothing issued after it.
C9_UploadAfterCommentStep ==
  \A r \in Runs :
    pc[r] = "done" =>
      /\ Has(r, "uploadArtifact coverage") <=>
           /\ HasGithubToken(r) /\ inputs[r].coverageArtifactName # ""
           /\ CommentStepOver(r)
      /\ Has(r, "uploadArtifact html") <=>
           (inputs[r].artifactName # "" /\ Has(r, "genhtml") /\ effects[r][2] # "setFailed")
      /\ \A u \in {"uploadArtifact html", "uploadArtifact coverage"} :
           (failed[r] # Null /\ failed[r] = Some(MessageOf(r, u))) =>
             /\ Status(r) = "Failed"
             /\ Raiser(r) = u
             /\ output[r] = Null

C9_Witness ==
  \E r \in Runs :
    /\ Status(r) = "Passed"
    /\ ~IsPR(r)
    /\ Has(r, "uploadArtifact coverage")

\* The download of r left a number of files other than one.
Mismatch(r) == Has(r, "readdir") /\ lookup[r].files # 1

\* C10 as claimed: a download that leaves 0 or 2 or more files aborts the
\* run: it ends Failed.
C10_MismatchAbortsRun ==
  \A r \in Runs : (pc[r] = "done" /\ Mismatch(r)) => Status(r) = "Failed"

\* C10, amended: a download that leaves 0 or 2 or more files raises an error in
\* downloadSingleFileArtifact and none of the files becomes the baseline trace;
\* calculatePreviousCoverage absorbs the error with a warning and returns
\* null, so the run goes on to compose the absolute coverage line and does
\* not fail at the lookup.
C10_MismatchIsAbsorbed ==
  \A r \in Runs :
    Mismatch(r) =>
      /\ lookup[r].path = Null
      /\ previousCoverage[r] = Null
      /\ effects[r][Pos(r, "readdir") + 1] = "warning: error loading previous coverage"
      /\ ~Has(r, "lcovTotal previous")
      /\ body[r] # Null => body[r][1].diffMessage[1].kind = "total"
      /\ Status(r) = "Failed" => Raiser(r) \notin LookupEffects

C10_Witness ==
  \E r \in Runs :
    /\ Mismatch(r) /\ lookup[r].files = 2
    /\ Status(r) = "Passed"
    /\ PublishReturned(r)

\* The newest run of a listing that concluded with success, if any.
MostRecentSuccessful(listing) ==
  LET ok == {i \in 1..Len(listing) : listing[i].conclusion = "success"}
  IN IF ok = {} THEN Null
     ELSE Some(listing[CHOOSE i \in ok : \A j \in ok : i <= j])

\* C11: a baseline record names the most recent successful workflow run of
\* the target branch (its id and its head commit), and its artifact was looked
\* up by that run's id.
C11_BaselineIsLatestSuccessfulRun ==
  \A r \in Runs :
    previousCoverage[r] # Null =>
      LET run == MostRecentSuccessful(lookup[r].listing)
      IN /\ run # Null
         /\ previousCoverage[r][1].runId = run[1].id
         /\ previousCoverage[r][1].targetBranchSha = run[1].head_sha
         /\ lookup[r].findBy = Some(run[1].id)

\* The data rows of lcov's table, in the table's order.
DataRows(stdout) == SubSeq(stdout, 5, Len(stdout) - 2)

\* `row` begins with the path of a changed file.
BeginsWithChanged(row, changedFiles) ==
  \E k \in 1..Len(changedFiles) :
     /\ Len(changedFiles[k]) <= Len(row)
     /\ \A j \in 1..Len(changedFiles[k]) : row[j] = changedFiles[k][j]

\* The ways to pick n positions of 1..m in increasing order.
Embeddings(n, m) ==
  {f \in [1..n -> 1..m] : \A i, j \in 1..n : i < j => f[i] < f[j]}

\* C12: the filter keeps a data row exactly when it starts with the path of a
\* changed file, keeps the three header lines first, keeps the rows in the
\* table's order, and yields ' n/a' when no data row is kept, as with no
\* changed file.
C12_ChangedFileFilter ==
  \A r \in Runs :
    details[r] # Null =>
      LET rows == DataRows(inputs[r].lcovList)
          changed == inputs[r].changedFiles
          kept == {i \in 1..Len(rows) : BeginsWithChanged(rows[i], changed)}
          d == details[r][1]
      IN /\ (kept = {}) <=> (d.text = " n/a")
         /\ changed = <<>> => d.text = " n/a"
         /\ kept # {} =>
              /\ Len(d.lines) = 3 + Cardinality(kept)
              /\ SubSeq(d.lines, 1, 3) = SubSeq(inputs[r].lcovList, 2, 4)
              /\ \E f \in Embeddings(Cardinality(kept), Len(rows)) :
                   /\ {f[i] : i \in 1..Cardinality(kept)} = kept
                   /\ \A i \in 1..Cardinality(kept) : d.lines[3 + i] = rows[f[i]]

\* A table of two rows of which the filter kept the second only.
C12_Witness ==
  \E r \in Runs :
    /\ details[r] # Null
    /\ Len(DataRows(inputs[r].lcovList)) = 2
    /\ details[r][1].text = "lines"
    /\ Len(details[r][1].lines) = 4
    /\ details[r][1].lines[4] = DataRows(inputs[r].lcovList)[2]
    /\ DataRows(inputs[r].lcovList)[1] # DataRows(inputs[r].lcovList)[2]

\* No step of run r raised: it returned, with a coverage, and what failed it,
\* if anything, is the gate.
OnlyTheGateRaised(r) ==
  /\ pc[r] = "done"
  /\ totalCoverage[r] # Null
  /\ (failed[r] # Null => failed[r][1].text = GateText)

\* C13: when no step raised, the run ends Passed exactly when the aggregate
\* coverage is at least the minimum (equal passes, an unset minimum is 0), and
\* Failed otherwise; the baseline coverage and the per-file detail, whatever
\* they are, have no part in it.
C13_GateDecision ==
  \A r \in Runs :
    OnlyTheGateRaised(r) =>
      LET atLeast == \/ inputs[r].minimumCoverage = "" /\ totalCoverage[r][1] >= 0
                     \/ inputs[r].minimumCoverage = "90" /\ totalCoverage[r][1] >= 9000
      IN /\ Status(r) = "Passed" <=> atLeast
         /\ Status(r) = "Failed" <=> ~atLeast

\* A run passed with a coverage equal to the minimum, with a baseline known.
C13_Witness ==
  \E r \in Runs :
    /\ Status(r) = "Passed"
    /\ totalCoverage[r] = Some(9000)
    /\ inputs[r].minimumCoverage = "90"
    /\ previousCoverage[r] # Null
    /\ details[r] # Null

\* The body run r composed has a diff line.
HasDiffLine(r) == body[r] # Null /\ body[r][1].diffMessage[1].kind = "diff"

\* C14: when the listing of the target branch's workflow runs is empty, the
\* lookup yields no baseline and the run goes on to compose: it is not failed
\* there, and its body reads "Total coverage: X%" of the aggregate coverage,
\* with no diff line. A body has a diff line only when a baseline record was
\* resolved, and then the line is that record's.
C14_NoBaselineNoDiffLine ==
  \A r \in Runs :
    /\ Has(r, "warning: no workflow runs") =>
         LET at == Pos(r, "warning: no workflow runs")
         IN /\ previousCoverage[r] = Null
            /\ IF at = Len(effects[r])
                 THEN pc[r] = "compose" /\ failed[r] = Null /\ body[r] = Null
                 ELSE /\ effects[r][at + 1] = "compose"
                      /\ body[r] # Null
                      /\ body[r][1].diffMessage[1].kind = "total"
                      /\ body[r][1].diffMessage[1].to = totalCoverage[r][1]
                      /\ \A c \in 1..Len(comments) :
                           comments[c].run = r =>
                             comments[c].diffMessage = body[r][1].diffMessage
    /\ HasDiffLine(r) =>
         /\ previousCoverage[r] # Null
         /\ Has(r, "lcovTotal previous")
         /\ body[r][1].diffMessage[1].from = previousCoverage[r][1].coverage
         /\ body[r][1].diffMessage[1].base = previousCoverage[r][1].targetBranchSha

\* A run that found no workflow run published a body with the total only and
\* passed.
C14_Witness ==
  \E r \in Runs :
    /\ Has(r, "warning: no workflow runs")
    /\ Status(r) = "Passed"
    /\ \E c \in 1..Len(comments) :
         /\ comments[c].run = r
         /\ comments[c].diffMessage[1].kind = "total"
         /\ comments[c].diffMessage[1].to = 9000

\* The number a numeral of digits stands for.
RECURSIVE ValueOf(_)
ValueOf(digits) ==
  IF digits = <<>> THEN 0
  ELSE ValueOf(SubSeq(digits, 1, Len(digits) - 1)) * 10
         + (CHOOSE d \in 0..9 : DigitChars[d + 1] = digits[Len(digits)])

\* `text` is a numeral with exactly two decimals, perhaps negative.
TwoDecimals(text) ==
  LET u == IF text # <<>> /\ text[1] = "-" THEN Tail(text) ELSE text
  IN /\ Len(u) >= 4
     /\ u[Len(u) - 2] = "."
     /\ \A i \in 1..Len(u) : i # Len(u) - 2 => \E d \in 1..10 : DigitChars[d] = u[i]
     /\ (Len(u) > 4 => u[1] # "0")

\* The hundredths a numeral with two decimals stands for.
Hundredths(text) ==
  LET neg == text[1] = "-"
      u == IF neg THEN Tail(text) ELSE text
      v == ValueOf(SubSeq(u, 1, Len(u) - 3)) * 100 + ValueOf(SubSeq(u, Len(u) - 1, Len(u)))
  IN IF neg THEN -v ELSE v

\* C15: with a baseline p and a coverage c, the diff line gives c - p with two
\* decimals, with a "+" before it exactly when c > p, then p and c with two
\* decimals; from 80.00 to 82.50 it reads "+2.50" and "80.00", "82.50".
C15_DiffLine ==
  \A r \in Runs :
    HasDiffLine(r) =>
      LET m == body[r][1].diffMessage[1]
          p == previousCoverage[r][1].coverage
          c == totalCoverage[r][1]
          plus == m.change[1] = "+"
          number == IF plus THEN Tail(m.change) ELSE m.change
      IN /\ plus <=> c > p
         /\ TwoDecimals(number) /\ Hundredths(number) = c - p
         /\ (c < p <=> number[1] = "-")
         /\ TwoDecimals(m.fromText) /\ Hundredths(m.fromText) = p
         /\ TwoDecimals(m.toText) /\ Hundredths(m.toText) = c
         /\ (p = 8000 /\ c = 8250) =>
              /\ m.change = <<"+", "2", ".", "5", "0">>
              /\ m.fromText = <<"8", "0", ".", "0", "0">>
              /\ m.toText = <<"8", "2", ".", "5", "0">>

\* The body composed for a coverage of 82.50 on a baseline of 80.00.
C15_Witness ==
  \E r \in Runs :
    /\ HasDiffLine(r)
    /\ previousCoverage[r][1].coverage = 8000
    /\ totalCoverage[r][1] = 8250
    /\ body[r][1].diffMessage[1].change = <<"+", "2", ".", "5", "0">>

\* The stage of the pipeline an effect stands for, "" when it stands for none.
StageOf(e) ==
  CASE e = "uploadArtifact html" -> "HtmlUploaded"
    [] e = "lcov merge" -> "Merged"
    [] e = "lcov --summary" -> "Summarized"
    [] e = "lcovTotal previous" -> "BaselineResolved"
    [] e \in {"warning: no workflow runs", "warning: no artifact found",
              "warning: error loading previous coverage"} -> "BaselineSkipped"
    [] e = "compose" -> "Composed"
    [] e \in WriteEffects -> "Published"
    [] e = "info: skipping comment" -> "PublishSkipped"
    [] e = "uploadArtifact coverage" -> "Uploaded"
    [] e = "setOutput" -> "OutputSet"
    [] OTHER -> ""

IsStage(s) == s # ""

\* The stages run r has passed, in order.
Stages(r) ==
  SelectSeq([i \in 1..Len(effects[r]) |-> StageOf(effects[r][i])], IsStage)

\* C16 as claimed: a run in which no step raised has merged, then summarized,
\* then composed, then published or skipped publishing, and has uploaded no
\* artifact, HTML report or merged trace, before the merge.
C16_StagesAsStated ==
  \A r \in Runs :
    OnlyTheGateRaised(r) =>
      /\ Before(r, "lcov merge", "lcov --summary")
      /\ Before(r, "lcov --summary", "compose")
      /\ \A i \in 1..Len(effects[r]) :
           effects[r][i] \in {"uploadArtifact html", "uploadArtifact coverage"}
             => Pos(r, "lcov merge") < i

\* C16, amended: a run in which no step raised has passed, in this order and
\* with nothing else: the HTML upload when artifact-name is set, the merge,
\* then on a pull request event the summary, the baseline (resolved or
\* absent), the composition and the publication, and on any other event the
\* skipping of the comment alone; then the coverage upload when a name is
\* set for it, then the output; and it has ended Passed or Failed. The merged
\* trace is never uploaded before the merge; the HTML report always is.
C16_StagesInOrder ==
  \A r \in Runs :
    /\ OnlyTheGateRaised(r) =>
         LET html == IF inputs[r].artifactName # "" THEN <<"HtmlUploaded">> ELSE <<>>
             baseline == IF previousCoverage[r] # Null
                           THEN "BaselineResolved" ELSE "BaselineSkipped"
             comment == IF IsPR(r)
                          THEN <<"Summarized", baseline, "Composed", "Published">>
                          ELSE <<"PublishSkipped">>
             upload == IF inputs[r].coverageArtifactName # ""
                         THEN <<"Uploaded">> ELSE <<>>
         IN /\ Stages(r) = html \o <<"Merged">> \o comment \o upload \o <<"OutputSet">>
            /\ Status(r) \in {"Passed", "Failed"}
            /\ Status(r) = "Failed" <=> effects[r][Len(effects[r])] = "setFailed"
    /\ Has(r, "uploadArtifact coverage") =>
         Before(r, "lcov merge", "uploadArtifact coverage")
    /\ (Has(r, "uploadArtifact html") /\ Has(r, "lcov merge")) =>
         Before(r, "uploadArtifact html", "lcov merge")

\* A run on a pull request that uploaded the HTML report, resolved a baseline,
\* published, uploaded the merged trace and passed.
C16_Witness ==
  \E r \in Runs :
    /\ Status(r) = "Passed"
    /\ Stages(r) = <<"HtmlUploaded", "Merged", "Summarized", "BaselineResolved",
                     "Composed", "Published", "Uploaded", "OutputSet">>

\* The comment writes run r has issued.
Writes(r) == {i \in 1..Len(effects[r]) : effects[r][i] \in WriteEffects}

\* Run r's update request returns in this step: one comment that held r's
\* header takes r's body, and the thread is otherwise as it was.
UpdateReturns(r) ==
  /\ effects'[r] = Append(effects[r], "updateComment")
  /\ inputs[r].updateComment
  /\ \E c \in 1..Len(comments) :
       /\ Includes(comments[c], CommentHeaderPrefix(r))
       /\ comments' = [comments EXCEPT ![c] = body[r][1]]

\* Run r's create request returns in this step: r's body is one more comment
\* at the end of the thread, which is otherwise as it was.
CreateReturns(r) ==
  /\ effects'[r] = Append(effects[r], "createComment")
  /\ Len(comments') = Len(comments) + 1
  /\ comments'[Len(comments')] = body[r][1]
  /\ \A c \in 1..Len(comments) : comments'[c] = comments[c]

\* C17: a run issues at most one comment write; no step removes a comment; a
\* step in which an update returns changes only a comment that held the
\* run's header, a step in which a create returns only adds the run's body,
\* and no other step changes the thread.
C17_PublishFrame ==
  /\ [](\A r \in Runs : Cardinality(Writes(r)) <= 1)
  /\ [][ /\ Len(comments') >= Len(comments)
         /\ \A r \in Runs :
              /\ effects'[r] = Append(effects[r], "updateComment") => UpdateReturns(r)
              /\ effects'[r] = Append(effects[r], "createComment") => CreateReturns(r)
         /\ comments' # comments =>
              \E r \in Runs : UpdateReturns(r) \/ CreateReturns(r) ]_vars

\* One run created the report and another, in update mode, rewrote it: the
\* thread has one comment more than the unrelated ones, with the second body.
C17_Witness ==
  \E q, r \in Runs :
    /\ q # r
    /\ Has(q, "createComment") /\ PublishReturned(q)
    /\ Has(r, "updateComment") /\ PublishReturned(r)
    /\ existingComment[r] # 0
    /\ comments[existingComment[r]] = body[r][1]
    /\ body[q][1] # body[r][1]
    /\ \A c \in 1..Len(comments) : c # existingComment[r] => comments[c] = UserComment

\* C18: of a run that published, with a minimum that is a number: the body
\* carries the gate's notice, naming the coverage and the minimum, exactly
\* when the coverage is below the minimum, and so does the comment it wrote;
\* and with any minimum, a run that published a body with the notice and has
\* returned has Failed.
C18_NoticeAgreesWithStatus ==
  \A r \in Runs :
    PublishReturned(r) =>
      LET b == body[r][1]
          total == totalCoverage[r][1]
          minimum == inputs[r].minimumCoverage
      IN /\ ToNumber(minimum) # Null =>
              (b.notice # Null <=> total < ToNumber(minimum)[1])
         /\ b.notice # Null => b.notice = Some(ErrorMessage(total, minimum))
         /\ \A c \in 1..Len(comments) : comments[c].run = r => comments[c].notice = b.notice
         /\ (b.notice # Null /\ pc[r] = "done") => Status(r) = "Failed"
         /\ (b.notice = Null /\ Status(r) = "Failed") => failed[r][1].text # GateText

\* A run published a body with the notice for 82.50 under a minimum of 90,
\* left it on the pull request, and ended Failed at the gate.
C18_Witness ==
  \E r \in Runs :
    /\ PublishReturned(r)
    /\ \E c \in 1..Len(comments) :
         /\ comments[c].run = r
         /\ comments[c].notice = Some(ErrorMessage(8250, "90"))
    /\ Status(r) = "Failed"
    /\ failed[r] = Some(ErrorMessage(8250, "90"))

====
